---- MODULE Spec2Model ----
(***************************************************************************)
(* The sitemap-driven conversion pipeline of website2pdf                   *)
(* (src/src/utils/const.ts, lines 91-287): Website2Pdf.main,               *)
(* processSitemaps, processSitemap, sitemapToPDF and pageToPDF.            *)
(*                                                                         *)
(* Every call of the rendering backend (puppeteer) and of the filesystem   *)
(* (fs-extra) is a promise: the action that invokes it leaves the caller   *)
(* waiting, and a later action settles it, fulfilled or rejected.  The     *)
(* then / catch / finally callbacks that run on settlement are part of     *)
(* the settling action, up to the next backend call they make.             *)
(*                                                                         *)
(* PromisePool (@supercharge/promise-pool) starts the items in order,      *)
(* keeps at most withConcurrency(n) handlers in flight, collects a         *)
(* handler's rejection in its errors list and goes on with the next item;  *)
(* process() is fulfilled when every handler has settled.                  *)
(***************************************************************************)
EXTENDS Naturals, Sequences, FiniteSets

\* Bounds of the model: the website of a run has at most MaxSitemaps
\* sitemaps with at most MaxUrls URLs in all, and cliArgs.processPool is in
\* 1..MaxPool.
MaxSitemaps == 2
MaxUrls == 2
MaxPool == 2

VARIABLES
    sitemaps,     \* website.sitemaps: sitemaps[s] = sitemap s's urls.length
    processPool,  \* cliArgs.processPool
    pc,           \* position of main / processSitemaps
    mainResult,   \* settlement of the promise of Website2Pdf.main()
    failedStep,   \* the first step of processSitemaps that was rejected
    browser,      \* the browser of puppeteer.launch
    contexts,     \* number of browsing contexts created
    printCount,   \* number of calls of PrintResults.printResults
    closeCount,   \* number of calls of browser.close
    nextSm,       \* outer pool: index of the next sitemap to start
    smState,      \* outer pool: state of each sitemap's handler
    dirCalls,     \* per sitemap: number of fs.ensureDir calls made for it
    outputDirOk,  \* per sitemap: fs.ensureDir(outputDir) was fulfilled for it
    nextUrl,      \* inner pool of each sitemap: index of the next URL
    task,         \* task[s][u]: the pageToPDF call of URL u of sitemap s
    results       \* PrintResults: the stored outcomes, in storing order

vars == <<sitemaps, processPool, pc, mainResult, failedStep, browser, contexts,
          printCount, closeCount, nextSm, smState, dirCalls, outputDirOk,
          nextUrl, task, results>>

STATUS_PRINTED == "PRINTED"
STATUS_ERROR == "ERRORED"

\* The sitemaps of the website and the URLs of a sitemap.
Sitemaps == 1..Len(sitemaps)
Urls(s) == 1..sitemaps[s]

\* The number of URLs of the sitemaps w.
RECURSIVE TotalUrls(_)
TotalUrls(w) == IF w = <<>> THEN 0 ELSE Head(w) + TotalUrls(Tail(w))

\* The website of a run: every sequence of at most MaxSitemaps sitemaps,
\* empty ones included, with at most MaxUrls URLs in all.
Websites ==
    {w \in UNION {[1..n -> 0..MaxUrls] : n \in 0..MaxSitemaps} :
        TotalUrls(w) <= MaxUrls}

\* A pageToPDF call before PromisePool has started it.
NewTask ==
    [pc |-> "pending",      \* where the call stands
     page |-> "none",       \* the page of browserContext.newPage()
     failedAt |-> "none",   \* the first backend step of the call that failed
     titlePending |-> FALSE,\* page.title() is in flight
     mdTitle |-> "absent",  \* metadatas.get('title'): absent, doc or meta
     fileTitle |-> "none",  \* the title toFilename was given, once derived
     newPageCalls |-> 0,    \* calls of browserContext.newPage() by the call
     gotoCalls |-> 0,       \* calls of page.goto on its page
     pdfCalls |-> 0,        \* calls of page.pdf on its page
     closeCalls |-> 0,      \* calls of page.close on its page
     dirEnsured |-> FALSE,  \* fs.ensureDir(fileDir) was fulfilled
     pdfPath |-> "none",    \* the path given to page.pdf (by its title)
     pdfResult |-> "none"]  \* settlement of page.pdf: none, ok or failed

\* A pageToPDF call has started and its promise is not settled.
InFlight(t) == t.pc \notin {"pending", "done", "failed"}

\* A pageToPDF call has settled.
Ended(t) == t.pc \in {"done", "failed"}

\* The URL tasks of sitemap s that the inner pool has in flight.
ActiveTasks(s) == {u \in Urls(s) : InFlight(task[s][u])}

\* The sitemap handlers the outer pool has in flight.
ActiveSitemaps == {s \in Sitemaps : smState[s] \in {"ensureDir", "pool"}}

\* The pages that are open: opened by newPage and not closed.
OpenPages ==
    UNION {{<<s, u>> : u \in {v \in Urls(s) : task[s][v].page = "open"}} :
           s \in Sitemaps}

\* The outcomes stored for URL u of sitemap s.
OutcomesOf(s, u) ==
    {i \in 1..Len(results) : results[i].sm = s /\ results[i].url = u}

\* PrintResults.storeResult(url, filePath, status).
storeResult(s, u, filePath, status) ==
    results' = Append(results,
                      [sm |-> s, url |-> u, filePath |-> filePath,
                       status |-> status])

Init ==
    /\ sitemaps \in Websites
    /\ processPool \in 1..MaxPool
    /\ pc = "main"
    /\ mainResult = "running"
    /\ failedStep = "none"
    /\ browser = "none"
    /\ contexts = 0
    /\ printCount = 0
    /\ closeCount = 0
    /\ nextSm = 1
    /\ smState = [s \in Sitemaps |-> "pending"]
    /\ dirCalls = [s \in Sitemaps |-> 0]
    /\ outputDirOk = [s \in Sitemaps |-> FALSE]
    /\ nextUrl = [s \in Sitemaps |-> 1]
    /\ task = [s \in Sitemaps |-> [u \in Urls(s) |-> NewTask]]
    /\ results = <<>>

\* The variables of the two pools and of the URL tasks.
poolVars == <<nextSm, smState, dirCalls, outputDirOk, nextUrl, task, results>>

\* The variables of the run outside the pools.
runVars == <<pc, mainResult, failedStep, browser, contexts, printCount,
             closeCount>>

\* The configuration, fixed at construction.
config == <<sitemaps, processPool>>

(***************************************************************************)
(* Website2Pdf.main and processSitemaps                                    *)
(***************************************************************************)

\* main without the test of website.sitemaps.length: processSitemaps is
\* called for every website.
mainNoGuard ==
    /\ pc = "main"
    /\ pc' = "launch"
    /\ UNCHANGED <<mainResult, failedStep, browser, contexts, printCount,
                   closeCount, poolVars, config>>

\* main, after website.build(): processSitemaps is called, and with it
\* puppeteer.launch, only when the website has sitemaps; otherwise a
\* warning is logged and main's promise is fulfilled.
main ==
    /\ pc = "main"
    /\ IF Len(sitemaps) # 0
       THEN pc' = "launch" /\ UNCHANGED mainResult
       ELSE pc' = "done" /\ mainResult' = "ok"
    /\ UNCHANGED <<failedStep, browser, contexts, printCount, closeCount,
                   poolVars, config>>

\* puppeteer.launch is fulfilled: browser.version() is called.
launchOk ==
    /\ pc = "launch"
    /\ pc' = "version"
    /\ browser' = "open"
    /\ UNCHANGED <<mainResult, failedStep, contexts, printCount, closeCount,
                   poolVars, config>>

\* puppeteer.launch is rejected: no then callback runs, the rejection
\* reaches the catch of Website2Pdf.main().
launchFail ==
    /\ pc = "launch"
    /\ pc' = "done"
    /\ failedStep' = "launch"
    /\ mainResult' = "error"
    /\ UNCHANGED <<browser, contexts, printCount, closeCount, poolVars,
                   config>>

\* browser.version() is fulfilled: createIncognitoBrowserContext is called.
versionOk ==
    /\ pc = "version"
    /\ pc' = "context"
    /\ UNCHANGED <<mainResult, failedStep, browser, contexts, printCount,
                   closeCount, poolVars, config>>

\* browser.version() is rejected, with the cleanup in a then callback
\* instead of a finally callback: it is skipped with the others.
versionFailNoFinally ==
    /\ pc = "version"
    /\ pc' = "done"
    /\ failedStep' = "version"
    /\ mainResult' = "error"
    /\ UNCHANGED <<browser, contexts, printCount, closeCount, poolVars,
                   config>>

\* browser.version() is rejected: the then callbacks are skipped and the
\* finally callback is next.
versionFail ==
    /\ pc = "version"
    /\ pc' = "finally"
    /\ failedStep' = "version"
    /\ UNCHANGED <<mainResult, browser, contexts, printCount, closeCount,
                   poolVars, config>>

\* createIncognitoBrowserContext is fulfilled: the outer pool starts.
createContextOk ==
    /\ pc = "context"
    /\ pc' = "pool"
    /\ contexts' = contexts + 1
    /\ UNCHANGED <<mainResult, failedStep, browser, printCount, closeCount,
                   poolVars, config>>

\* createIncognitoBrowserContext is rejected: the finally callback is next.
createContextFail ==
    /\ pc = "context"
    /\ pc' = "finally"
    /\ failedStep' = "context"
    /\ UNCHANGED <<mainResult, browser, contexts, printCount, closeCount,
                   poolVars, config>>

(***************************************************************************)
(* The outer pool: PromisePool.for(website.sitemaps).withConcurrency(1)    *)
(***************************************************************************)

\* processSitemap without the test of sitemap.urls.length: sitemapToPDF is
\* called for every sitemap.
processSitemapNoGuard(s) ==
    /\ smState' = [smState EXCEPT ![s] = "ensureDir"]
    /\ dirCalls' = [dirCalls EXCEPT ![s] = @ + 1]

\* processSitemap(sitemap): sitemapToPDF is called, and with it
\* fs.ensureDir(outputDir), only when the sitemap has URLs; otherwise a
\* warning is logged and the handler's promise is fulfilled.
processSitemap(s) ==
    IF sitemaps[s] # 0
    THEN /\ smState' = [smState EXCEPT ![s] = "ensureDir"]
         /\ dirCalls' = [dirCalls EXCEPT ![s] = @ + 1]
    ELSE /\ smState' = [smState EXCEPT ![s] = "skipped"]
         /\ UNCHANGED dirCalls

\* The outer pool may start its next handler: fewer than withConcurrency(1)
\* handlers are in flight.
outerSlotFree == Cardinality(ActiveSitemaps) < 1

\* An outer pool whose handler creates a browsing context of its own for
\* every sitemap.
outerStartOwnContext(s) ==
    /\ pc = "pool"
    /\ s = nextSm
    /\ outerSlotFree
    /\ nextSm' = nextSm + 1
    /\ contexts' = contexts + 1
    /\ processSitemap(s)
    /\ UNCHANGED <<pc, mainResult, failedStep, browser, printCount, closeCount,
                   outputDirOk, nextUrl, task, results, config>>

\* The outer pool starts the handler of the next sitemap.
outerStart(s) ==
    /\ pc = "pool"
    /\ s = nextSm
    /\ outerSlotFree
    /\ nextSm' = nextSm + 1
    /\ processSitemap(s)
    /\ UNCHANGED <<runVars, outputDirOk, nextUrl, task, results, config>>

\* sitemapToPDF: fs.ensureDir(outputDir) is fulfilled, the inner pool of the
\* sitemap starts.
ensureOutputDirOk(s) ==
    /\ smState[s] = "ensureDir"
    /\ smState' = [smState EXCEPT ![s] = "pool"]
    /\ outputDirOk' = [outputDirOk EXCEPT ![s] = TRUE]
    /\ UNCHANGED <<runVars, nextSm, dirCalls, nextUrl, task, results, config>>

\* sitemapToPDF: fs.ensureDir(outputDir) is rejected, the then callbacks are
\* skipped and the handler's promise is rejected (the outer pool collects
\* the error).
ensureOutputDirFail(s) ==
    /\ smState[s] = "ensureDir"
    /\ smState' = [smState EXCEPT ![s] = "failed"]
    /\ UNCHANGED <<runVars, nextSm, dirCalls, outputDirOk, nextUrl, task,
                   results, config>>

\* The inner pool of sitemap s may start its next handler: fewer than
\* withConcurrency(cliArgs.processPool) handlers are in flight.
innerSlotFree(s) == Cardinality(ActiveTasks(s)) < processPool

\* The inner pool starts the handler of the next URL: pageToPDF calls
\* browserContext.newPage().
innerStart(s, u) ==
    /\ smState[s] = "pool"
    /\ u = nextUrl[s]
    /\ u \in Urls(s)
    /\ innerSlotFree(s)
    /\ nextUrl' = [nextUrl EXCEPT ![s] = @ + 1]
    /\ task' = [task EXCEPT ![s][u].pc = "newPage",
                            ![s][u].newPageCalls = @ + 1]
    /\ UNCHANGED <<runVars, nextSm, smState, dirCalls, outputDirOk, results,
                   config>>

\* An inner pool that stops at the first rejected handler: process() settles
\* once a handler has failed and none is in flight, whatever is left.
innerDrainedAbort(s) ==
    /\ smState[s] = "pool"
    /\ \/ nextUrl[s] > sitemaps[s]
       \/ \E u \in Urls(s) : task[s][u].pc = "failed"
    /\ ActiveTasks(s) = {}
    /\ smState' = [smState EXCEPT ![s] = "done"]
    /\ UNCHANGED <<runVars, nextSm, dirCalls, outputDirOk, nextUrl, task,
                   results, config>>

\* An inner pool whose process() is fulfilled only when every handler was
\* fulfilled: a rejected handler leaves it waiting.
innerDrainedAllDone(s) ==
    /\ smState[s] = "pool"
    /\ nextUrl[s] > sitemaps[s]
    /\ \A u \in Urls(s) : task[s][u].pc = "done"
    /\ smState' = [smState EXCEPT ![s] = "done"]
    /\ UNCHANGED <<runVars, nextSm, dirCalls, outputDirOk, nextUrl, task,
                   results, config>>

\* The inner pool of sitemap s has drained: every URL was started and every
\* handler has settled; process() is fulfilled and so is sitemapToPDF.
innerDrained(s) ==
    /\ smState[s] = "pool"
    /\ nextUrl[s] > sitemaps[s]
    /\ ActiveTasks(s) = {}
    /\ smState' = [smState EXCEPT ![s] = "done"]
    /\ UNCHANGED <<runVars, nextSm, dirCalls, outputDirOk, nextUrl, task,
                   results, config>>

\* An outer pool that stops at the first rejected handler: process()
\* settles once a sitemap has failed, whatever is left.
outerDrainedAbort ==
    /\ pc = "pool"
    /\ \/ nextSm > Len(sitemaps)
       \/ \E s \in Sitemaps : smState[s] = "failed"
    /\ ActiveSitemaps = {}
    /\ pc' = "finally"
    /\ UNCHANGED <<mainResult, failedStep, browser, contexts, printCount,
                   closeCount, poolVars, config>>

\* An outer pool that is not awaited: the finally callback runs once the
\* last sitemap was started, with its handler still in flight.
outerDrainedEarly ==
    /\ pc = "pool"
    /\ nextSm > Len(sitemaps)
    /\ pc' = "finally"
    /\ UNCHANGED <<mainResult, failedStep, browser, contexts, printCount,
                   closeCount, poolVars, config>>

\* The outer pool has drained: every sitemap was started and every handler
\* has settled; process() is fulfilled (never rejected: the handlers'
\* errors are collected) and the finally callback is next.
outerDrained ==
    /\ pc = "pool"
    /\ nextSm > Len(sitemaps)
    /\ ActiveSitemaps = {}
    /\ pc' = "finally"
    /\ UNCHANGED <<mainResult, failedStep, browser, contexts, printCount,
                   closeCount, poolVars, config>>

\* A finally callback that calls browser.close() first and leaves the
\* report for after the teardown.
processSitemapsFinallyCloseFirst ==
    /\ pc = "finally"
    /\ closeCount' = closeCount + 1
    /\ browser' = "closing"
    /\ pc' = "closing"
    /\ UNCHANGED <<mainResult, failedStep, contexts, printCount, poolVars,
                   config>>

\* The finally callback of processSitemaps: PrintResults.printResults()
\* and then the call of browser.close().
processSitemapsFinally ==
    /\ pc = "finally"
    /\ printCount' = printCount + 1
    /\ closeCount' = closeCount + 1
    /\ browser' = "closing"
    /\ pc' = "closing"
    /\ UNCHANGED <<mainResult, failedStep, contexts, poolVars, config>>

\* browser.close() is fulfilled: the finally promise settles as the chain
\* before it did, and with it processSitemaps and main.
browserCloseOk ==
    /\ pc = "closing"
    /\ browser' = "closed"
    /\ pc' = "done"
    /\ mainResult' = IF failedStep = "none" THEN "ok" ELSE "error"
    /\ UNCHANGED <<failedStep, contexts, printCount, closeCount, poolVars,
                   config>>

\* browser.close() is rejected: the finally promise is rejected.
browserCloseFail ==
    /\ pc = "closing"
    /\ browser' = "closeFailed"
    /\ pc' = "done"
    /\ failedStep' = IF failedStep = "none" THEN "close" ELSE failedStep
    /\ mainResult' = "error"
    /\ UNCHANGED <<contexts, printCount, closeCount, poolVars, config>>

(***************************************************************************)
(* pageToPDF, the handler of the inner pool                                *)
(***************************************************************************)

\* The variables a step of pageToPDF leaves alone when it stores nothing.
taskFrame == <<runVars, nextSm, smState, outputDirOk, nextUrl, config>>

\* browserContext.newPage() is fulfilled: the page is open, the metadatas
\* map is created empty and fs.ensureDir(fileDir) is called.
newPageOk(s, u) ==
    /\ task[s][u].pc = "newPage"
    /\ task' = [task EXCEPT ![s][u].pc = "ensureDir", ![s][u].page = "open"]
    /\ dirCalls' = [dirCalls EXCEPT ![s] = @ + 1]
    /\ UNCHANGED <<taskFrame, results>>

\* browserContext.newPage() is rejected: pageToPDF is rejected.
newPageFail(s, u) ==
    /\ task[s][u].pc = "newPage"
    /\ task' = [task EXCEPT ![s][u].pc = "failed",
                            ![s][u].failedAt = "newPage"]
    /\ UNCHANGED <<taskFrame, dirCalls, results>>

\* fs.ensureDir(fileDir) is fulfilled: page.goto(url) is called.
ensureDirOk(s, u) ==
    /\ task[s][u].pc = "ensureDir"
    /\ task' = [task EXCEPT ![s][u].pc = "goto",
                            ![s][u].dirEnsured = TRUE,
                            ![s][u].gotoCalls = @ + 1]
    /\ UNCHANGED <<taskFrame, dirCalls, results>>

\* fs.ensureDir(fileDir) is rejected and the rejection is swallowed: the
\* chain goes on to page.goto without the directory.
ensureDirFailIgnored(s, u) ==
    /\ task[s][u].pc = "ensureDir"
    /\ task' = [task EXCEPT ![s][u].pc = "goto",
                            ![s][u].gotoCalls = @ + 1]
    /\ UNCHANGED <<taskFrame, dirCalls, results>>

\* fs.ensureDir(fileDir) is rejected: its then callbacks are skipped, and
\* with them the chain that carries the catch and the finally of the page;
\* pageToPDF is rejected.
ensureDirFail(s, u) ==
    /\ task[s][u].pc = "ensureDir"
    /\ task' = [task EXCEPT ![s][u].pc = "failed",
                            ![s][u].failedAt = "ensureDir"]
    /\ UNCHANGED <<taskFrame, dirCalls, results>>

\* page.goto is fulfilled: the first then callback calls page.title() and
\* does not wait for it, the second calls page.$$eval('meta', ...).
gotoOk(s, u) ==
    /\ task[s][u].pc = "goto"
    /\ task' = [task EXCEPT ![s][u].pc = "meta",
                            ![s][u].titlePending = TRUE]
    /\ UNCHANGED <<taskFrame, dirCalls, results>>

\* page.goto is rejected: the then callbacks are skipped and the finally
\* callback calls page.close().
gotoFail(s, u) ==
    /\ task[s][u].pc = "goto"
    /\ task' = [task EXCEPT ![s][u].pc = "closing",
                            ![s][u].closeCalls = @ + 1,
                            ![s][u].failedAt = "goto"]
    /\ UNCHANGED <<taskFrame, dirCalls, results>>

\* page.title() is fulfilled, on a page that is still open: its callback
\* sets metadatas 'title' to the document title.
titleOk(s, u) ==
    /\ task[s][u].titlePending
    /\ task[s][u].page = "open"
    /\ task' = [task EXCEPT ![s][u].titlePending = FALSE,
                            ![s][u].mdTitle = "doc"]
    /\ UNCHANGED <<taskFrame, dirCalls, results>>

\* page.title() is rejected: nothing handles the rejection and nothing is
\* set (the runtime is taken to report an unhandled rejection and go on).
titleFail(s, u) ==
    /\ task[s][u].titlePending
    /\ task' = [task EXCEPT ![s][u].titlePending = FALSE]
    /\ UNCHANGED <<taskFrame, dirCalls, results>>

\* page.$$eval is fulfilled: every named meta tag is set in metadatas;
\* metaTitle says whether the page has a <meta name="title"> tag.
metaOk(s, u, metaTitle) ==
    /\ task[s][u].pc = "meta"
    /\ task' = [task EXCEPT ![s][u].pc = "derive",
                            ![s][u].mdTitle = IF metaTitle THEN "meta" ELSE @]
    /\ UNCHANGED <<taskFrame, dirCalls, results>>

\* page.$$eval is rejected: the last then callback is skipped and the
\* finally callback calls page.close().
metaFail(s, u) ==
    /\ task[s][u].pc = "meta"
    /\ task' = [task EXCEPT ![s][u].pc = "closing",
                            ![s][u].closeCalls = @ + 1,
                            ![s][u].failedAt = "meta"]
    /\ UNCHANGED <<taskFrame, dirCalls, results>>

\* The last then callback: filePath is derived from metadatas.get('title')
\* and page.pdf({path: filePath, ...}) is called.
derivePath(s, u) ==
    /\ task[s][u].pc = "derive"
    /\ task' = [task EXCEPT ![s][u].pc = "pdf",
                            ![s][u].fileTitle = task[s][u].mdTitle,
                            ![s][u].pdfPath = task[s][u].mdTitle,
                            ![s][u].pdfCalls = @ + 1]
    /\ UNCHANGED <<taskFrame, dirCalls, results>>

\* page.pdf is fulfilled: STATUS_PRINTED is stored and the finally callback
\* calls page.close().
pdfOk(s, u) ==
    /\ task[s][u].pc = "pdf"
    /\ storeResult(s, u, task[s][u].fileTitle, STATUS_PRINTED)
    /\ task' = [task EXCEPT ![s][u].pc = "closing",
                            ![s][u].closeCalls = @ + 1,
                            ![s][u].pdfResult = "ok"]
    /\ UNCHANGED <<taskFrame, dirCalls>>

\* page.pdf is rejected, with the catch before the then and no rethrow:
\* STATUS_ERROR is stored and then STATUS_PRINTED.
pdfFailCatchThen(s, u) ==
    /\ task[s][u].pc = "pdf"
    /\ results' = Append(Append(results,
                      [sm |-> s, url |-> u, filePath |-> task[s][u].fileTitle,
                       status |-> STATUS_ERROR]),
                      [sm |-> s, url |-> u, filePath |-> task[s][u].fileTitle,
                       status |-> STATUS_PRINTED])
    /\ task' = [task EXCEPT ![s][u].pc = "closing",
                            ![s][u].closeCalls = @ + 1,
                            ![s][u].pdfResult = "failed",
                            ![s][u].failedAt = "pdf"]
    /\ UNCHANGED <<taskFrame, dirCalls>>

\* page.pdf is rejected: the catch callback stores STATUS_ERROR and throws
\* the error again, and the finally callback calls page.close().
pdfFail(s, u) ==
    /\ task[s][u].pc = "pdf"
    /\ storeResult(s, u, task[s][u].fileTitle, STATUS_ERROR)
    /\ task' = [task EXCEPT ![s][u].pc = "closing",
                            ![s][u].closeCalls = @ + 1,
                            ![s][u].pdfResult = "failed",
                            ![s][u].failedAt = "pdf"]
    /\ UNCHANGED <<taskFrame, dirCalls>>

\* pageToPDF has settled as r: the promise of page.title(), when still in
\* flight, is rejected with the closed page, and the locals of the call
\* (the metadatas map, filePath) are gone.
settled(t, r) ==
    [t EXCEPT !.pc = r, !.page = "closed", !.titlePending = FALSE,
              !.mdTitle = "absent", !.fileTitle = "none"]

\* page.close() is fulfilled: the finally promise settles as the chain
\* before it did, and with it pageToPDF.
closeOk(s, u) ==
    /\ task[s][u].pc = "closing"
    /\ task' = [task EXCEPT ![s][u] =
                   settled(@, IF @.failedAt = "none" THEN "done" ELSE "failed")]
    /\ UNCHANGED <<taskFrame, dirCalls, results>>

\* page.close() is rejected: pageToPDF is rejected.  The page counts as
\* released once page.close() was called on it.
closeFail(s, u) ==
    /\ task[s][u].pc = "closing"
    /\ task' = [task EXCEPT ![s][u] =
                   [settled(@, "failed") EXCEPT
                       !.failedAt = IF @ = "none" THEN "close" ELSE @]]
    /\ UNCHANGED <<taskFrame, dirCalls, results>>

(***************************************************************************)
(* The specification                                                       *)
(***************************************************************************)

Next ==
    \/ main
    \/ launchOk
    \/ launchFail
    \/ versionOk
    \/ versionFail
    \/ createContextOk
    \/ createContextFail
    \/ \E s \in Sitemaps : outerStart(s)
    \/ \E s \in Sitemaps : ensureOutputDirOk(s)
    \/ \E s \in Sitemaps : ensureOutputDirFail(s)
    \/ \E s \in Sitemaps : \E u \in Urls(s) : innerStart(s, u)
    \/ \E s \in Sitemaps : \E u \in Urls(s) : newPageOk(s, u)
    \/ \E s \in Sitemaps : \E u \in Urls(s) : newPageFail(s, u)
    \/ \E s \in Sitemaps : \E u \in Urls(s) : ensureDirOk(s, u)
    \/ \E s \in Sitemaps : \E u \in Urls(s) : ensureDirFail(s, u)
    \/ \E s \in Sitemaps : \E u \in Urls(s) : gotoOk(s, u)
    \/ \E s \in Sitemaps : \E u \in Urls(s) : gotoFail(s, u)
    \/ \E s \in Sitemaps : \E u \in Urls(s) : titleOk(s, u)
    \/ \E s \in Sitemaps : \E u \in Urls(s) : titleFail(s, u)
    \/ \E s \in Sitemaps : \E u \in Urls(s) : \E m \in BOOLEAN : metaOk(s, u, m)
    \/ \E s \in Sitemaps : \E u \in Urls(s) : metaFail(s, u)
    \/ \E s \in Sitemaps : \E u \in Urls(s) : derivePath(s, u)
    \/ \E s \in Sitemaps : \E u \in Urls(s) : pdfOk(s, u)
    \/ \E s \in Sitemaps : \E u \in Urls(s) : pdfFail(s, u)
    \/ \E s \in Sitemaps : \E u \in Urls(s) : closeOk(s, u)
    \/ \E s \in Sitemaps : \E u \in Urls(s) : closeFail(s, u)
    \/ \E s \in Sitemaps : innerDrained(s)
    \/ outerDrained
    \/ processSitemapsFinally
    \/ browserCloseOk
    \/ browserCloseFail

Spec == Init /\ [][Next]_vars

\* The run under the assumption that every backend and filesystem call
\* settles and every callback that can run does: no step of Next stays
\* enabled forever without a step being taken.
FairSpec == Spec /\ WF_vars(Next)

\* The run has finished: main's promise has settled.
Finished == pc = "done"

TypeOK ==
    /\ sitemaps \in Websites
    /\ processPool \in 1..MaxPool
    /\ pc \in {"main", "launch", "version", "context", "pool", "finally",
               "closing", "done"}
    /\ mainResult \in {"running", "ok", "error"}
    /\ failedStep \in {"none", "launch", "version", "context", "close"}
    /\ browser \in {"none", "open", "closing", "closed", "closeFailed"}
    /\ contexts \in 0..1
    /\ printCount \in 0..1
    /\ closeCount \in 0..1
    /\ nextSm \in 1..(Len(sitemaps) + 1)
    /\ \A s \in Sitemaps :
         /\ smState[s] \in {"pending", "ensureDir", "pool", "done", "failed",
                            "skipped"}
         /\ nextUrl[s] \in 1..(sitemaps[s] + 1)
         /\ \A u \in Urls(s) :
              /\ task[s][u].pc \in {"pending", "newPage", "ensureDir", "goto",
                                    "meta", "derive", "pdf", "closing", "done",
                                    "failed"}
              /\ task[s][u].page \in {"none", "open", "closed"}
              /\ task[s][u].failedAt \in {"none", "newPage", "ensureDir",
                                          "goto", "meta", "pdf", "close"}
              /\ task[s][u].titlePending \in BOOLEAN
              /\ task[s][u].mdTitle \in {"absent", "doc", "meta"}
              /\ task[s][u].fileTitle \in {"none", "absent", "doc", "meta"}
              /\ task[s][u].newPageCalls \in 0..1
              /\ task[s][u].gotoCalls \in 0..1
              /\ task[s][u].pdfCalls \in 0..1
              /\ task[s][u].closeCalls \in 0..1
              /\ task[s][u].dirEnsured \in BOOLEAN
              /\ task[s][u].pdfPath \in {"none", "absent", "doc", "meta"}
              /\ task[s][u].pdfResult \in {"none", "ok", "failed"}
         /\ outputDirOk[s] \in BOOLEAN

(***************************************************************************)
(* Outcome bookkeeping and page release (C1 - C5)                          *)
(***************************************************************************)

\* Every URL of the website, as <<sitemap, url>>.
AllTasks == UNION {{<<s, u>> : u \in Urls(s)} : s \in Sitemaps}

\* The URLs of the sitemaps whose inner pool ran and drained.
ProcessedUrls == {p \in AllTasks : smState[p[1]] = "done"}

\* The steps of pageToPDF before the release of the page.
PageSteps == {"newPage", "ensureDir", "goto", "meta", "pdf"}

\* C1: every URL task that has ended has recorded exactly one outcome, and
\* when the run has finished the number of stored outcomes is the number of
\* URLs of the sitemaps whose inner pool ran.
C1_OneOutcomePerUrl ==
    /\ \A p \in AllTasks :
         Ended(task[p[1]][p[2]]) => Cardinality(OutcomesOf(p[1], p[2])) = 1
    /\ Finished => Len(results) = Cardinality(ProcessedUrls)

\* C2: a URL task that has ended after a failure of newPage, ensureDir,
\* goto, the meta extraction or pdf has stored an ERRORED outcome.
C2_FailureStoresErrored ==
    \A p \in AllTasks :
        (/\ Ended(task[p[1]][p[2]])
         /\ task[p[1]][p[2]].failedAt \in PageSteps)
        => \E i \in OutcomesOf(p[1], p[2]) : results[i].status = STATUS_ERROR

\* C3: the page a URL task has opened is closed when the task has ended,
\* and no page is open when the run has finished.
C3_PageReleased ==
    /\ \A p \in AllTasks :
         Ended(task[p[1]][p[2]]) => task[p[1]][p[2]].page # "open"
    /\ Finished => OpenPages = {}

\* C4: at most cliArgs.processPool pages are open.
C4_OpenPagesBounded == Cardinality(OpenPages) <= processPool

\* C5: a URL task of a sitemap has started only if the handler of every
\* earlier sitemap has settled, with every URL task it started ended and
\* the page of that task closed; and the URL tasks in flight are those of
\* one sitemap.
C5_SitemapsSerialized ==
    /\ \A a \in Sitemaps : \A b \in Sitemaps :
         (a < b /\ \E u \in Urls(b) : task[b][u].pc # "pending")
         => /\ a \notin ActiveSitemaps
            /\ \A v \in Urls(a) :
                 ~InFlight(task[a][v]) /\ task[a][v].page # "open"
    /\ \A a \in Sitemaps : \A b \in Sitemaps :
         (ActiveTasks(a) # {} /\ ActiveTasks(b) # {}) => a = b

\* C5, without the pages: once a URL task of a sitemap has started, no
\* earlier sitemap has a handler or a URL task in flight.
C5_TasksSerialized ==
    \A a \in Sitemaps : \A b \in Sitemaps :
        (a < b /\ \E u \in Urls(b) : task[b][u].pc # "pending")
        => a \notin ActiveSitemaps /\ ActiveTasks(a) = {}

(***************************************************************************)
(* Failure isolation and the final report (C6 - C8)                        *)
(***************************************************************************)

\* The URL task p has failed.
Failed(p) == task[p[1]][p[2]].pc = "failed"

PoolsDrained ==
    /\ ActiveSitemaps = {}
    /\ \A p \in AllTasks : ~InFlight(task[p[1]][p[2]])
    /\ failedStep \notin {"version", "context"} =>
         /\ nextSm > Len(sitemaps)
         /\ \A s \in Sitemaps : smState[s] \in {"done", "failed", "skipped"}
         /\ \A p \in ProcessedUrls : Ended(task[p[1]][p[2]])

\* C7: printResults is invoked at most once, only when both pools have
\* drained, and it has been invoked once in every finished run in which
\* the browser was launched.
C7_PrintedOnceAfterDrain ==
    /\ printCount <= 1
    /\ printCount = 1 => PoolsDrained
    /\ (Finished /\ browser # "none") => printCount = 1

\* C7 witness: a finished run with the report printed, in which a sitemap
\* handler and a URL task have failed.
C7_Witness ==
    /\ Finished
    /\ printCount = 1
    /\ \E s \in Sitemaps : smState[s] = "failed"
    /\ \E p \in AllTasks : Failed(p)

\* C7 witness of the early failures: browser.version() was rejected and the
\* report is printed all the same.
C7_WitnessVersion == Finished /\ failedStep = "version" /\ printCount = 1

\* C8 as stated: printResults has been invoked only if browser.close() has
\* completed.
C8_PrintAfterClose ==
    printCount > 0 => browser \in {"closed", "closeFailed"}

\* C8 amended: the report comes before the teardown; whenever browser.close()
\* has been called, printResults has already been invoked.
C8_PrintBeforeClose ==
    (closeCount > 0 \/ browser \in {"closing", "closed", "closeFailed"})
    => printCount = 1

\* C8 witness: browser.close() is in flight and the report is printed.
C8_Witness == browser = "closing" /\ closeCount = 1 /\ printCount = 1

(***************************************************************************)
(* Empty inputs (C9, C10)                                                  *)
(***************************************************************************)

\* C9: a sitemap without URLs is skipped: no fs.ensureDir call is made for
\* it, it has no URL task (so no page) and no outcome, its handler does not
\* fail, and when the outer pool has drained every sitemap, those after it
\* included, has been handled.
C9_EmptySitemapSkipped ==
    /\ \A s \in Sitemaps :
         sitemaps[s] = 0 =>
            /\ smState[s] \in {"pending", "skipped"}
            /\ dirCalls[s] = 0
            /\ \A p \in AllTasks : p[1] # s
            /\ \A i \in 1..Len(results) : results[i].sm # s
            /\ (nextSm > s => smState[s] = "skipped")
    /\ (pc \in {"finally", "closing", "done"} /\ contexts = 1) =>
         \A s \in Sitemaps : smState[s] \in {"done", "failed", "skipped"}

\* C9 witness: the first sitemap has no URLs and was skipped, and the inner
\* pool of the second has run.
C9_Witness ==
    /\ Len(sitemaps) = 2
    /\ sitemaps[1] = 0
    /\ smState[1] = "skipped"
    /\ smState[2] = "done"
    /\ results # <<>>

\* C10: with no sitemap, puppeteer.launch is never called, there is no
\* browser, browsing context, page or outcome, and main is fulfilled.
C10_NoSitemapsNoLaunch ==
    Len(sitemaps) = 0 =>
        /\ pc \in {"main", "done"}
        /\ browser = "none"
        /\ contexts = 0
        /\ OpenPages = {}
        /\ results = <<>>
        /\ printCount = 0
        /\ mainResult # "error"
        /\ pc = "done" => mainResult = "ok"

\* C10 witness: the run of a website without sitemaps has finished.
C10_Witness == Len(sitemaps) = 0 /\ Finished /\ mainResult = "ok"

(***************************************************************************)
(* The life of a work item and the order of its steps (C11 - C14)          *)
(***************************************************************************)

\* The URL task t was processed at most once: one newPage, at most one
\* goto, one pdf and one close, and nothing before PromisePool started it.
OnceOnly(t) ==
    /\ t.newPageCalls <= 1 /\ t.gotoCalls <= 1
    /\ t.pdfCalls <= 1 /\ t.closeCalls <= 1
    /\ t.pc = "pending" => t = NewTask
    /\ t.pc # "pending" => t.newPageCalls = 1

\* C11: every URL is processed at most once (no retries), stores at most
\* one outcome, and once its task has ended it is in one of the two terminal
\* states: exactly one outcome is stored for it, PRINTED or ERRORED.
C11_ItemLifecycle ==
    \A p \in AllTasks :
        /\ OnceOnly(task[p[1]][p[2]])
        /\ Cardinality(OutcomesOf(p[1], p[2])) <= 1
        /\ Ended(task[p[1]][p[2]]) =>
             \E i \in OutcomesOf(p[1], p[2]) :
                 results[i].status \in {STATUS_PRINTED, STATUS_ERROR}

\* C11, the part without the terminal outcome: no retries, at most one
\* outcome per URL.
C11_NoRetries ==
    \A p \in AllTasks :
        /\ OnceOnly(task[p[1]][p[2]])
        /\ Cardinality(OutcomesOf(p[1], p[2])) <= 1

\* C12: page.pdf was called for a URL only after fs.ensureDir(fileDir) of
\* that URL was fulfilled, and the inner pool of a sitemap has started only
\* after fs.ensureDir(outputDir) was fulfilled for it.
C12_DirEnsuredBeforeWrite ==
    /\ \A p \in AllTasks :
         task[p[1]][p[2]].pdfCalls > 0 => task[p[1]][p[2]].dirEnsured
    /\ \A s \in Sitemaps :
         (smState[s] \in {"pool", "done"} \/ nextUrl[s] > 1) => outputDirOk[s]

\* C12 witness: a PDF was written, after both directories were ensured.
C12_Witness ==
    \E p \in AllTasks :
        /\ task[p[1]][p[2]].pdfResult = "ok"
        /\ task[p[1]][p[2]].dirEnsured
        /\ outputDirOk[p[1]]

\* C13: when the filename is derived, metadatas holds a 'title' entry.
C13_TitleSetBeforeUse ==
    \A p \in AllTasks :
        /\ task[p[1]][p[2]].fileTitle # "absent"
        /\ task[p[1]][p[2]].pdfPath # "absent"

\* C14: a PRINTED outcome is stored only for a URL whose page.pdf was
\* fulfilled, an ERRORED outcome only for a URL one of whose steps failed,
\* no URL has two outcomes, and the filePath of an outcome is the path that
\* was given to page.pdf.
C14_OutcomeMatchesRender ==
    /\ \A i \in 1..Len(results) :
         /\ results[i].status = STATUS_PRINTED =>
              task[results[i].sm][results[i].url].pdfResult = "ok"
         /\ results[i].status = STATUS_ERROR =>
              /\ task[results[i].sm][results[i].url].failedAt \in PageSteps
              /\ task[results[i].sm][results[i].url].pdfResult # "ok"
         /\ results[i].filePath = task[results[i].sm][results[i].url].pdfPath
    /\ \A p \in AllTasks : Cardinality(OutcomesOf(p[1], p[2])) <= 1

\* C14 witness: a PRINTED and an ERRORED outcome are stored.
C14_Witness ==
    /\ \E i \in 1..Len(results) : results[i].status = STATUS_PRINTED
    /\ \E i \in 1..Len(results) : results[i].status = STATUS_ERROR

(***************************************************************************)
(* Sitemap failures, contexts, termination (C15 - C19)                     *)
(***************************************************************************)

\* The outer pool is over: the finally callback of processSitemaps is next
\* or has run, after the browsing context was created.
OuterPoolOver == pc \in {"finally", "closing", "done"} /\ contexts = 1

\* C15: a sitemap whose fs.ensureDir(outputDir) was rejected starts no URL
\* task (so opens no page) and has no outcome, and when the outer pool is
\* over every sitemap after it has been processed.
C15_SitemapFailureIsolated ==
    \A a \in Sitemaps :
        smState[a] = "failed" =>
            /\ \A u \in Urls(a) : task[a][u] = NewTask
            /\ \A i \in 1..Len(results) : results[i].sm # a
            /\ OuterPoolOver =>
                 \A b \in Sitemaps :
                     a < b => smState[b] \in {"done", "failed", "skipped"}

\* C15 witness: the first sitemap has failed and the second was processed
\* and has an outcome.
C15_Witness ==
    /\ Len(sitemaps) = 2
    /\ smState[1] = "failed"
    /\ smState[2] = "done"
    /\ \E i \in 1..Len(results) : results[i].sm = 2

\* C16: at most one browsing context is created, and it is the one every
\* sitemap is processed with; every URL task calls newPage once, and goto,
\* pdf and close are called at most once, by the task, on the page it
\* opened.
C16_ContextSharedPagesExclusive ==
    /\ contexts <= 1
    /\ (\E s \in Sitemaps : smState[s] # "pending") => contexts = 1
    /\ \A p \in AllTasks :
         /\ task[p[1]][p[2]].newPageCalls <= 1
         /\ task[p[1]][p[2]].page # "none" =>
              task[p[1]][p[2]].newPageCalls = 1
         /\ task[p[1]][p[2]].gotoCalls + task[p[1]][p[2]].pdfCalls
              + task[p[1]][p[2]].closeCalls > 0 =>
              task[p[1]][p[2]].page # "none"
         /\ task[p[1]][p[2]].closeCalls <= 1
         /\ task[p[1]][p[2]].page = "closed" =>
              task[p[1]][p[2]].closeCalls = 1

\* C16 witness: two sitemaps were processed with the one context, each with
\* a page of its own, opened and closed.
C16_Witness ==
    /\ Len(sitemaps) = 2
    /\ contexts = 1
    /\ \A s \in Sitemaps :
         /\ smState[s] = "done"
         /\ \E u \in Urls(s) : task[s][u].page = "closed"

\* C17 as stated: a run that has finished has printed the report and closed
\* the browser, and none of its URLs is left pending or in progress.
C17_AlwaysReportedAndClosed ==
    Finished =>
        /\ printCount = 1
        /\ browser = "closed"
        /\ \A p \in AllTasks : Ended(task[p[1]][p[2]])

\* The run has finished as processSitemaps leaves it: nothing is in flight;
\* if the browser was launched the report is printed and browser.close()
\* was called and has settled; a URL is left pending only when the run
\* failed before the outer pool or the handler of its sitemap failed.
Terminated ==
    /\ Finished
    /\ mainResult \in {"ok", "error"}
    /\ ActiveSitemaps = {}
    /\ \A p \in AllTasks : ~InFlight(task[p[1]][p[2]])
    /\ browser # "none" =>
         /\ printCount = 1
         /\ closeCount = 1
         /\ browser \in {"closed", "closeFailed"}
    /\ \A p \in AllTasks :
         task[p[1]][p[2]].pc = "pending" =>
            \/ failedStep \in {"launch", "version", "context"}
            \/ smState[p[1]] = "failed"

\* C17 amended: under fairness every run eventually finishes, in the state
\* Terminated.
C17_Terminates == <>Terminated

\* C17 witness: a run finished with the report printed, the browser closed
\* and every URL ended.
C17_Witness ==
    /\ Terminated
    /\ browser = "closed"
    /\ AllTasks # {}
    /\ \A p \in AllTasks : Ended(task[p[1]][p[2]])

\* C18: the title toFilename is given is never the content of a meta tag.
C18_FilenameFromDocumentTitle ==
    \A p \in AllTasks :
        /\ task[p[1]][p[2]].fileTitle # "meta"
        /\ task[p[1]][p[2]].pdfPath # "meta"

\* C19: browser.close() is called at most once, only on a launched browser
\* and only when no sitemap handler and no URL task is in flight, and it
\* has been called once in every finished run in which the browser was
\* launched.
C19_BrowserClosedOnce ==
    /\ closeCount <= 1
    /\ browser = "none" => closeCount = 0
    /\ closeCount > 0 =>
         /\ ActiveSitemaps = {}
         /\ \A p \in AllTasks : ~InFlight(task[p[1]][p[2]])
    /\ (Finished /\ browser # "none") => closeCount = 1

\* C19 witness: the creation of the browsing context was rejected and the
\* browser was closed.
C19_Witness ==
    /\ Finished
    /\ failedStep = "context"
    /\ closeCount = 1
    /\ browser = "closed"

====
